---- MODULE Spec2Model ----
(***************************************************************************)
(* MixtureOfDiagNormalsSharedCovariance (pyro/distributions/               *)
(* diag_normal_mixture_shared_cov.py): the constructor's shape checks,     *)
(* log_prob, rsample and the custom autograd Function                      *)
(* _MixDiagNormalSharedCovarianceSample (forward / backward).              *)
(*                                                                         *)
(* Tensors are records [kind, shape, data]: shape is the torch.Size as a    *)
(* sequence, data maps every index tuple (0-based coordinates) to a        *)
(* number, kind marks an operation that raised.  Numbers are binary         *)
(* fixed-point reals (unit ONE) with the IEEE specials NaN, +Inf, -Inf;    *)
(* results beyond FMax overflow to an infinity and exp underflows to 0,    *)
(* as floating point does at its own (larger) range.                       *)
(***************************************************************************)
EXTENDS Integers, Sequences, FiniteSets, TLC

VARIABLES env, dist, pc, last, out, ctx, reads

vars == <<env, dist, pc, last, out, ctx, reads>>

(***************************************************************************)
(* Bounds of the model.                                                    *)
(***************************************************************************)
\* sizes of tensor axes range over 1..MaxDim
MaxDim == 2
\* rank of the batch shape ranges over 0..MaxBatchRank
MaxBatchRank == 1
\* rank of sample_shape (and of the leading axes of a log_prob value)
MaxSampleRank == 2
\* a saved context is read by at most MaxReads backward calls in the model
MaxReads == 2
\* magnitude (in whole units) of the means and noise drawn in SpecNum
MaxLoc == 1
MaxWhite == 4

(***************************************************************************)
(* Numbers: fixed point with 8 fractional bits, IEEE-style specials.       *)
(***************************************************************************)
ONE == 2^8
FMax == 2^15
PInf == 2^24
NInf == 0 - 2^24
NaN == 2^25

IsNaN(x) == x = NaN
IsInf(x) == x = PInf \/ x = NInf
IsFinite(x) == ~IsNaN(x) /\ ~IsInf(x)

\* rounding of an exact result into the representable range
Fl(x) == IF x > FMax THEN PInf ELSE IF x < 0 - FMax THEN NInf ELSE x

Sign(x) == IF x > 0 THEN 1 ELSE IF x < 0 THEN 0 - 1 ELSE 0
Abs(x) == IF x < 0 THEN 0 - x ELSE x

Neg(a) == IF IsNaN(a) THEN NaN ELSE 0 - a

Add(a, b) ==
    IF IsNaN(a) \/ IsNaN(b) THEN NaN
    ELSE IF IsInf(a) /\ IsInf(b) THEN (IF a = b THEN a ELSE NaN)
    ELSE IF IsInf(a) THEN a
    ELSE IF IsInf(b) THEN b
    ELSE Fl(a + b)

Sub(a, b) == Add(a, Neg(b))

Mul(a, b) ==
    IF IsNaN(a) \/ IsNaN(b) THEN NaN
    ELSE IF IsInf(a) \/ IsInf(b)
         THEN (IF a = 0 \/ b = 0 THEN NaN
               ELSE IF Sign(a) * Sign(b) > 0 THEN PInf ELSE NInf)
    ELSE Fl((a * b) \div ONE)

Div(a, b) ==
    IF IsNaN(a) \/ IsNaN(b) THEN NaN
    ELSE IF IsInf(a) THEN (IF IsInf(b) THEN NaN
                           ELSE IF Sign(a) * (IF b < 0 THEN 0 - 1 ELSE 1) > 0
                                THEN PInf ELSE NInf)
    ELSE IF IsInf(b) THEN 0
    ELSE IF b = 0 THEN (IF a = 0 THEN NaN ELSE IF a > 0 THEN PInf ELSE NInf)
    ELSE Fl((a * ONE) \div b)

\* torch.min / torch.max propagate NaN
Min2(a, b) == IF IsNaN(a) \/ IsNaN(b) THEN NaN ELSE IF a <= b THEN a ELSE b
Max2(a, b) == IF IsNaN(a) \/ IsNaN(b) THEN NaN ELSE IF a >= b THEN a ELSE b

\* torch.pow(x, 2.0)
Pow2(a) == Mul(a, a)

RECURSIVE ISqrtFrom(_, _, _)
ISqrtFrom(n, lo, hi) ==
    IF lo >= hi THEN lo
    ELSE LET mid == (lo + hi + 1) \div 2
         IN  IF mid * mid <= n THEN ISqrtFrom(n, mid, hi)
             ELSE ISqrtFrom(n, lo, mid - 1)

\* tensor.sqrt()
Sqrt(a) ==
    IF IsNaN(a) THEN NaN
    ELSE IF a = PInf THEN PInf
    ELSE IF a < 0 THEN NaN
    ELSE ISqrtFrom(a * ONE, 0, 2^12)

\* exp(-1/8) in fixed point
ExpStep == (226 * ONE) \div 256

RECURSIVE ExpDown(_)
\* exp(-n/8): n multiplications by exp(-1/8), rounded down; underflows to 0
ExpDown(n) ==
    IF n = 0 THEN ONE
    ELSE LET p == ExpDown(n - 1) IN IF p = 0 THEN 0 ELSE (p * ExpStep) \div ONE

\* number of eighths after which ExpDown is 0 for good
ExpUnderflow == 8 * 8

\* torch.exp: exact 1 at 0, decreasing to an underflow 0 below, increasing
\* to an overflow +Inf above
Exp(a) ==
    IF IsNaN(a) THEN NaN
    ELSE IF a = PInf THEN PInf
    ELSE IF a = NInf THEN 0
    ELSE IF a <= 0
         THEN LET n == ((0 - a) * 8 + ONE - 1) \div ONE
              IN  IF n >= ExpUnderflow THEN 0 ELSE ExpDown(n)
    ELSE LET n == (a * 8) \div ONE
             d == IF n >= ExpUnderflow THEN 0 ELSE ExpDown(n)
         IN  IF d = 0 THEN PInf ELSE Fl((ONE * ONE) \div d)

\* ln 2 in fixed point
Ln2 == (177 * ONE) \div 256

RECURSIVE LnPos(_)
\* natural logarithm of a positive finite number: ln 2 per doubling and the
\* chord of ln between ONE and 2 ONE
LnPos(a) ==
    IF a >= 2 * ONE THEN Ln2 + LnPos(a \div 2)
    ELSE IF a < ONE THEN LnPos(a * 2) - Ln2
    ELSE ((a - ONE) * Ln2) \div ONE

\* torch.log
Log(a) ==
    IF IsNaN(a) THEN NaN
    ELSE IF a = PInf THEN PInf
    ELSE IF a < 0 THEN NaN
    ELSE IF a = 0 THEN NInf
    ELSE LnPos(a)

\* erf(h / (2 sqrt 2)) for h = 0..7 half units, in 1/256
ErfHalves == <<0, 98, 175, 222, 244, 253, 255, 256>>

\* x |-> erf(x / sqrt 2): odd, increasing, saturating at +-1
ErfOverRoot2(a) ==
    IF IsNaN(a) THEN NaN
    ELSE IF a = PInf THEN ONE
    ELSE IF a = NInf THEN 0 - ONE
    ELSE LET h == (Abs(a) * 2) \div ONE
             m == IF h >= 7 THEN ONE ELSE (ErfHalves[h + 1] * ONE) \div 256
         IN  Sign(a) * m

(***************************************************************************)
(* Tensors.                                                                *)
(***************************************************************************)
\* a raised exception in place of a result, and python's None
ErrT == [kind |-> "error", shape |-> <<>>, data |-> <<>>]
NoneT == [kind |-> "None", shape |-> <<>>, data |-> <<>>]
IsErr(t) == t.kind # "tensor"

RECURSIVE Indices(_)
\* every index tuple of a tensor of shape s
Indices(s) ==
    IF s = <<>> THEN {<<>>}
    ELSE {<<i>> \o r : i \in 0..(s[1] - 1), r \in Indices(Tail(s))}

MkT(s, f) == [kind |-> "tensor", shape |-> s, data |-> f]

\* tensor.dim()
Rank(t) == Len(t.shape)

\* position (1-based) of the python axis d (negative: from the right)
Axis(s, d) == IF d < 0 THEN Len(s) + 1 + d ELSE d + 1

\* tensor.size(d)
Size(t, d) == t.shape[Axis(t.shape, d)]

RECURSIVE Numel(_)
Numel(s) == IF s = <<>> THEN 1 ELSE s[1] * Numel(Tail(s))

RECURSIVE Lin(_, _)
\* row-major position of index i in shape s
Lin(i, s) ==
    IF s = <<>> THEN 0
    ELSE i[1] * Numel(Tail(s)) + Lin(Tail(i), Tail(s))

\* shape[:n] and shape[n:] of python, n >= 0
Front(s, n) == SubSeq(s, 1, n)
Back(s, n) == SubSeq(s, n + 1, Len(s))

\* i with the entry at position p removed / with c inserted at position p
DropAt(i, p) == Front(i, p - 1) \o Back(i, p)
InsertAt(i, p, c) == Front(i, p - 1) \o <<c>> \o Back(i, p - 1)
SetAt(i, p, c) == [i EXCEPT ![p] = c]

\* tensor.unsqueeze(d) for d < 0: a new axis of size 1 at position d
Unsqueeze(t, d) ==
    IF IsErr(t) THEN ErrT
    ELSE LET p == Len(t.shape) + 2 + d
         IN  IF p < 1 THEN ErrT
             ELSE MkT(InsertAt(t.shape, p, 1),
                      [i \in Indices(InsertAt(t.shape, p, 1)) |-> t.data[DropAt(i, p)]])

\* tensor.squeeze(d): axis d is removed when its size is 1
Squeeze(t, d) ==
    IF IsErr(t) THEN ErrT
    ELSE LET p == Axis(t.shape, d)
         IN  IF p < 1 \/ p > Len(t.shape) THEN ErrT
             ELSE IF t.shape[p] # 1 THEN t
             ELSE MkT(DropAt(t.shape, p),
                      [i \in Indices(DropAt(t.shape, p)) |-> t.data[InsertAt(i, p, 0)]])

\* size of axis k (counted from the right, 1 = last) of shape s, 1 if absent
FromRight(s, k) == IF k <= Len(s) THEN s[Len(s) + 1 - k] ELSE 1

MaxOf(a, b) == IF a >= b THEN a ELSE b

\* torch broadcasting: shapes align at the right; sizes agree or one is 1
Broadcastable(s1, s2) ==
    \A k \in 1..MaxOf(Len(s1), Len(s2)) :
        \/ FromRight(s1, k) = FromRight(s2, k)
        \/ FromRight(s1, k) = 1
        \/ FromRight(s2, k) = 1

BroadcastShape(s1, s2) ==
    LET n == MaxOf(Len(s1), Len(s2))
    IN  [p \in 1..n |-> MaxOf(FromRight(s1, n + 1 - p), FromRight(s2, n + 1 - p))]

\* the index of an operand of shape s that the broadcast index i reads
BIdx(i, s) ==
    [p \in 1..Len(s) |-> IF s[p] = 1 THEN 0 ELSE i[Len(i) - Len(s) + p]]

\* the elementwise binary operations, by name
Bin(op, x, y) ==
    CASE op = "Add" -> Add(x, y)
      [] op = "Sub" -> Sub(x, y)
      [] op = "Mul" -> Mul(x, y)
      [] op = "Div" -> Div(x, y)
      [] op = "Min2" -> Min2(x, y)
      [] op = "Max2" -> Max2(x, y)

\* the elementwise unary functions, by name
Un(op, x) ==
    CASE op = "Neg" -> Neg(x)
      [] op = "Pow2" -> Pow2(x)
      [] op = "Sqrt" -> Sqrt(x)
      [] op = "Exp" -> Exp(x)
      [] op = "Log" -> Log(x)
      [] op = "ErfOverRoot2" -> ErfOverRoot2(x)

\* elementwise binary operation with broadcasting
Map2(op, a, b) ==
    IF IsErr(a) \/ IsErr(b) THEN ErrT
    ELSE IF ~Broadcastable(a.shape, b.shape) THEN ErrT
    ELSE LET s == BroadcastShape(a.shape, b.shape)
         IN  MkT(s, [i \in Indices(s) |->
                        Bin(op, a.data[BIdx(i, a.shape)], b.data[BIdx(i, b.shape)])])

\* in-place binary operation (a op= b): the result must keep a's shape
InPlace2(op, a, b) ==
    IF IsErr(a) \/ IsErr(b) THEN ErrT
    ELSE IF ~Broadcastable(a.shape, b.shape) THEN ErrT
    ELSE IF BroadcastShape(a.shape, b.shape) # a.shape THEN ErrT
    ELSE Map2(op, a, b)

\* elementwise unary operation
Map1(op, a) ==
    IF IsErr(a) THEN ErrT
    ELSE MkT(a.shape, [i \in Indices(a.shape) |-> Un(op, a.data[i])])

\* a python float as a 0-dimensional operand
Scalar(x) == MkT(<<>>, [i \in {<<>>} |-> x])

RECURSIVE Fold(_, _, _, _, _)
\* op-fold of t.data over axis p at the remaining index i, entries c..n-1
Fold(op, t, i, p, c) ==
    IF c = t.shape[p] - 1 THEN t.data[InsertAt(i, p, c)]
    ELSE Bin(op, t.data[InsertAt(i, p, c)], Fold(op, t, i, p, c + 1))

\* reduction over axis d (sum / min / max), keepdim as given
Reduce(op, t, d, keepdim) ==
    IF IsErr(t) THEN ErrT
    ELSE LET p == Axis(t.shape, d)
         IN  IF p < 1 \/ p > Len(t.shape) THEN ErrT
             ELSE IF keepdim
                  THEN MkT(SetAt(t.shape, p, 1),
                           [i \in Indices(SetAt(t.shape, p, 1)) |->
                               Fold(op, t, DropAt(i, p), p, 0)])
                  ELSE MkT(DropAt(t.shape, p),
                           [i \in Indices(DropAt(t.shape, p)) |-> Fold(op, t, i, p, 0)])

Sum(t, d) == Reduce("Add", t, d, FALSE)
SumKeep(t, d) == Reduce("Add", t, d, TRUE)
MinOver(t, d) == Reduce("Min2", t, d, FALSE)
MaxKeep(t, d) == Reduce("Max2", t, d, TRUE)

\* tensor.expand(target): ranks align at the right, an axis of size 1
\* stretches, any other size must match
Expand(t, target) ==
    IF IsErr(t) THEN ErrT
    ELSE IF Len(target) < Len(t.shape) THEN ErrT
    ELSE IF \E k \in 1..Len(t.shape) :
                FromRight(t.shape, k) # 1 /\ FromRight(t.shape, k) # FromRight(target, k)
         THEN ErrT
    ELSE MkT(target, [i \in Indices(target) |-> t.data[BIdx(i, t.shape)]])

\* torch.gather(input, d, index): same rank, index no larger than input
\* off axis d, out[i] = input[i with i[d] := index[i]]
Gather(input, d, index) ==
    IF IsErr(input) \/ IsErr(index) THEN ErrT
    ELSE IF Len(input.shape) # Len(index.shape) THEN ErrT
    ELSE LET p == Axis(input.shape, d)
         IN  IF p < 1 \/ p > Len(input.shape) THEN ErrT
             ELSE IF \E q \in 1..Len(input.shape) :
                         q # p /\ index.shape[q] > input.shape[q]
                  THEN ErrT
             ELSE IF \E i \in Indices(index.shape) :
                         index.data[i] < 0 \/ index.data[i] >= input.shape[p]
                  THEN ErrT
             ELSE MkT(index.shape,
                      [i \in Indices(index.shape) |-> input.data[SetAt(i, p, index.data[i])]])

\* torch.transpose(t, -1, -2)
TransposeLast(t) ==
    IF IsErr(t) THEN ErrT
    ELSE IF Len(t.shape) < 2 THEN ErrT
    ELSE LET n == Len(t.shape)
             sw(i) == [i EXCEPT ![n] = i[n - 1], ![n - 1] = i[n]]
         IN  MkT(sw(t.shape), [i \in Indices(sw(t.shape)) |-> t.data[sw(i)]])

\* t[..., diagonals, diagonals, :] = 0.0 with diagonals = range(K)
ZeroDiagonals(t, K) ==
    IF IsErr(t) THEN ErrT
    ELSE IF Len(t.shape) < 3 THEN ErrT
    ELSE LET n == Len(t.shape)
         IN  IF t.shape[n - 2] < K \/ t.shape[n - 1] < K THEN ErrT
             ELSE MkT(t.shape, [i \in Indices(t.shape) |->
                                   IF i[n - 2] = i[n - 1] /\ i[n - 1] < K
                                   THEN 0 ELSE t.data[i]])

RECURSIVE SumFirst(_, _)
\* the n leftmost axes summed out
SumFirst(t, n) ==
    IF IsErr(t) THEN ErrT
    ELSE IF n = 0 THEN t
    ELSE SumFirst(Sum(t, 0 - Len(t.shape)), n - 1)

\* pyro.distributions.util.sum_leftmost(value, dim) for dim < 0: leftmost
\* axes are summed out until -dim axes remain
sum_leftmost(value, dim) ==
    IF IsErr(value) THEN ErrT
    ELSE LET n == dim + Len(value.shape)
         IN  IF n < 0 THEN ErrT ELSE SumFirst(value, n)

(***************************************************************************)
(* torch.distributions.Categorical, as far as this module uses it.         *)
(***************************************************************************)
\* Categorical(logits=logits).probs: softmax over the last axis
CategoricalProbs(logits) ==
    LET m == MaxKeep(logits, -1)
        e == Map1("Exp", Map2("Sub", logits, m))
    IN  Map2("Div", e, SumKeep(e, -1))

\* shape of Categorical(logits=logits).sample(sample_shape)
CategoricalSampleShape(logits, sample_shape) ==
    sample_shape \o Front(logits.shape, Rank(logits) - 1)

(***************************************************************************)
(* MixtureOfDiagNormalsSharedCovariance                                    *)
(***************************************************************************)
NoDist ==
    [ok |-> FALSE, batch_mode |-> FALSE, locs |-> ErrT, scale |-> ErrT,
     logits |-> ErrT, dim |-> 0, probs |-> ErrT,
     batch_shape |-> <<>>, event_shape |-> <<>>]

\* the assertions without the comparison of logits' size with K
InitAssertsRanksOnly(locs, scale, logits) ==
    LET batch_mode == Rank(locs) > 2
    IN  /\ batch_mode \/ Rank(locs) = 2
        /\ IF ~batch_mode
           THEN Rank(scale) = 1 /\ Rank(logits) = 1
           ELSE Rank(scale) > 1 /\ Rank(logits) > 1

\* the assertions of __init__ (lines 27-38), in their order
InitAsserts(locs, scale, logits) ==
    LET batch_mode == Rank(locs) > 2
    IN  /\ batch_mode \/ Rank(locs) = 2
        /\ IF ~batch_mode
           THEN /\ Rank(scale) = 1
                /\ Rank(logits) = 1
                /\ Size(logits, 0) = Size(locs, 0)
           ELSE /\ Rank(scale) > 1
                /\ Rank(logits) > 1
                /\ Size(logits, -1) = Size(locs, -2)

\* __init__: the instance, or NoDist when an assertion fails
MixtureInit(locs, scale, logits) ==
    IF ~InitAsserts(locs, scale, logits) THEN NoDist
    ELSE LET batch_mode == Rank(locs) > 2
         IN  [ok |-> TRUE,
              batch_mode |-> batch_mode,
              locs |-> locs,
              scale |-> scale,
              logits |-> logits,
              dim |-> Size(locs, -1),
              probs |-> CategoricalProbs(logits),
              batch_shape |-> IF batch_mode THEN Front(locs.shape, Rank(locs) - 2)
                              ELSE <<>>,
              event_shape |-> <<Size(locs, -1)>>]

\* 0.5 * math.log(2.0 * math.pi), in 1/256
HalfLog2Pi == 235

\* log_prob, line 51: eps_sqr
eps_sqr(self, value) ==
    LET scale == IF self.batch_mode THEN Unsqueeze(self.scale, -2) ELSE self.scale
        epsilon == Map2("Div", Map2("Sub", Unsqueeze(value, -2), self.locs), scale)
    IN  Map2("Mul", Scalar(ONE \div 2), Sum(Map1("Pow2", epsilon), -1))

\* log_prob, line 52: eps_sqr_min
eps_sqr_min(self, value) == MinOver(eps_sqr(self, value), -1)

\* the argument of torch.exp without the minimum added back
exp_arg_unshifted(self, value) == Map1("Neg", eps_sqr(self, value))

\* log_prob, line 53: the argument of torch.exp
exp_arg(self, value) ==
    Map2("Add", Map1("Neg", eps_sqr(self, value)), Unsqueeze(eps_sqr_min(self, value), -1))

\* log_prob, lines 53-54: result.sum(-1), the argument of torch.log
mix_sum(self, value) ==
    Sum(Map2("Mul", self.probs, Map1("Exp", exp_arg(self, value))), -1)

\* log_prob(value)
log_prob(self, value) ==
    LET r1 == Map1("Log", mix_sum(self, value))
        r2 == InPlace2("Sub", r1, Scalar((HalfLog2Pi * ONE * self.dim) \div 256))
        r3 == InPlace2("Sub", r2, Sum(Map1("Log", self.scale), -1))
    IN  InPlace2("Sub", r3, eps_sqr_min(self, value))

(***************************************************************************)
(* _MixDiagNormalSharedCovarianceSample                                    *)
(***************************************************************************)
RECURSIVE UnsqueezeLast(_, _)
\* for _ in range(n): which = which.unsqueeze(-1)
UnsqueezeLast(t, n) == IF n <= 0 THEN t ELSE UnsqueezeLast(Unsqueeze(t, -1), n - 1)

\* forward, lines 69-75: the gathered location
forward_loc(locs, scale, which) ==
    LET dim == Size(scale, -1)
        n_unsqueezes == Rank(locs) - Rank(which)
        w == UnsqueezeLast(which, n_unsqueezes)
        expand_tuple == Front(w.shape, Rank(w) - 1) \o <<dim>>
    IN  Squeeze(Gather(locs, -2, Expand(w, expand_tuple)), -2)

\* forward, line 76: z, for the noise white drawn at line 70
forward(locs, scale, logits, pis, which, white) ==
    Map2("Add", forward_loc(locs, scale, which), Map2("Mul", scale, white))

\* sqrt(0.5 * pi), in 1/256
SqrtHalfPi == 321

\* backward, lines 89-90: z_tilde, locs_tilde
bw_normalized(z, scale, locs) ==
    [z_tilde |-> Map2("Div", z, scale),
     locs_tilde |-> Map2("Div", locs, Unsqueeze(scale, -2))]

\* backward, lines 91-95: mu_ab, the unit directions between the means
bw_mu_ab(locs_tilde, K) ==
    LET mu_ab == Map2("Sub", Unsqueeze(locs_tilde, -2), Unsqueeze(locs_tilde, -3))
        mu_ab_norm == Map1("Sqrt", Sum(Map1("Pow2", mu_ab), -1))
    IN  ZeroDiagonals(InPlace2("Div", mu_ab, Unsqueeze(mu_ab_norm, -1)), K)

\* the projection of the second mean of the pair instead of the first
bw_mu_ll_ab_second(locs_tilde, mu_ab) ==
    Sum(Map2("Mul", Unsqueeze(locs_tilde, -3), mu_ab), -1)

\* backward, line 97: mu_ll_ab
bw_mu_ll_ab(locs_tilde, mu_ab) == Sum(Map2("Mul", Unsqueeze(locs_tilde, -2), mu_ab), -1)

\* backward, line 98: z_ll_ab
bw_z_ll_ab(z_tilde, mu_ab) ==
    Sum(Map2("Mul", Unsqueeze(Unsqueeze(z_tilde, -2), -2), mu_ab), -1)

\* backward, lines 99-100: z_perp_ab_sqr
bw_z_perp_ab_sqr(z_tilde, mu_ab, z_ll_ab) ==
    LET z_perp_ab == Map2("Sub", Unsqueeze(Unsqueeze(z_tilde, -2), -2),
                          Map2("Mul", Unsqueeze(z_ll_ab, -1), mu_ab))
    IN  Sum(Map1("Pow2", z_perp_ab), -1)

\* backward, lines 97-100: the projections on the pair directions
bw_projections(n, mu_ab, z_ll_ab) ==
    [locs_tilde |-> n.locs_tilde,
     z_tilde |-> n.z_tilde,
     mu_ab |-> mu_ab,
     mu_ll_ab |-> bw_mu_ll_ab(n.locs_tilde, mu_ab),
     z_ll_ab |-> z_ll_ab,
     z_perp_ab_sqr |-> bw_z_perp_ab_sqr(n.z_tilde, mu_ab, z_ll_ab)]

\* backward, line 102: epsilons
bw_epsilons(n) == Map2("Sub", Unsqueeze(n.z_tilde, -2), n.locs_tilde)

\* backward, lines 103-104: log_q_j
bw_log_q_j(epsilons) ==
    SumKeep(Map2("Mul", Scalar(0 - (ONE \div 2)), Map1("Pow2", epsilons)), -1)

\* the argument of q_j_prime without the maximum subtracted
bw_q_j_prime_arg_unshifted(log_q_j) == log_q_j

\* backward, lines 105-106: the argument of the exp that gives q_j_prime
bw_q_j_prime_arg(log_q_j) == Map2("Sub", log_q_j, MaxKeep(log_q_j, -2))

\* backward, line 107: the argument of the exp that gives q_j
bw_q_j_arg(log_q_j) == log_q_j

\* backward, line 109: q_tot
bw_q_tot(pis, q_j) == Sum(Map2("Mul", Unsqueeze(pis, -1), q_j), -2)

\* backward, line 110: q_tot_prime
bw_q_tot_prime(pis, q_j_prime) ==
    Unsqueeze(Sum(Map2("Mul", Unsqueeze(pis, -1), q_j_prime), -2), -1)

\* backward, lines 102-110: the responsibilities and their normalizers
bw_responsibilities(pis, epsilons, log_q_j, q_j_prime, q_j) ==
    [epsilons |-> epsilons,
     log_q_j |-> log_q_j,
     q_j_prime_arg |-> bw_q_j_prime_arg(log_q_j),
     q_j_arg |-> bw_q_j_arg(log_q_j),
     q_j_prime |-> q_j_prime,
     q_tot |-> bw_q_tot(pis, q_j),
     q_tot_prime |-> bw_q_tot_prime(pis, q_j_prime)]

\* backward, lines 113-114: the arguments of the two erf, before / root_two
bw_erf_arg_1(z_ll_ab, mu_ll_ab) == Map2("Sub", z_ll_ab, mu_ll_ab)
bw_erf_arg_2(z_ll_ab, mu_ll_ab) == Map2("Add", z_ll_ab, TransposeLast(mu_ll_ab))

\* backward, line 115: the argument of the exp of the orthogonal part
bw_perp_arg(z_perp_ab_sqr) == Map2("Mul", Scalar(0 - (ONE \div 2)), z_perp_ab_sqr)

\* backward, line 118: mu_ab_sigma_g
bw_mu_ab_sigma_g(scale, g, mu_ab) ==
    Sum(Map2("Mul", Unsqueeze(Unsqueeze(Map2("Mul", scale, g), -2), -2), mu_ab), -1)

\* backward, lines 114-119: logits_grad per pair (l b k j), before the sums
bw_pair_terms(pis, p, erf_1, erf_2, mu_ab_sigma_g) ==
    LET erf_diff == Map2("Sub", Map1("ErfOverRoot2", erf_1), Map1("ErfOverRoot2", erf_2))
        with_perp == InPlace2("Mul", erf_diff, Map1("Exp", bw_perp_arg(p.z_perp_ab_sqr)))
    IN  InPlace2("Mul", with_perp, Map2("Mul", Map1("Neg", mu_ab_sigma_g), Unsqueeze(pis, -2)))

\* backward, lines 120-121: logits_grad
bw_logits_grad(pis, batch_dims, pair_terms, q_tot) ==
    InPlace2("Mul",
             Map2("Mul", pis,
                  sum_leftmost(Map2("Div", Sum(pair_terms, -1), q_tot), 0 - (1 + batch_dims))),
             Scalar((SqrtHalfPi * ONE) \div 256))

\* backward, line 124: prefactor
bw_prefactor(pis, g, r) ==
    Map2("Div", Map2("Mul", Map2("Mul", Unsqueeze(pis, -1), r.q_j_prime), Unsqueeze(g, -2)),
         r.q_tot_prime)

\* backward, line 125: locs_grad
bw_locs_grad(prefactor, batch_dims) == sum_leftmost(prefactor, 0 - (2 + batch_dims))

\* backward, line 126: scale_grad
bw_scale_grad(prefactor, epsilons, batch_dims) ==
    Sum(sum_leftmost(Map2("Mul", prefactor, epsilons), 0 - (2 + batch_dims)), -2)

\* backward, lines 112-126, given the projections p and responsibilities r
bw_gradients(saved, g, p, r, mu_ab_sigma_g, pair_terms, prefactor) ==
    [locs_tilde |-> p.locs_tilde, z_tilde |-> p.z_tilde,
     mu_ab |-> p.mu_ab, mu_ll_ab |-> p.mu_ll_ab, z_ll_ab |-> p.z_ll_ab,
     log_q_j |-> r.log_q_j, q_j_prime_arg |-> r.q_j_prime_arg, q_j_arg |-> r.q_j_arg,
     q_tot |-> r.q_tot, q_tot_prime |-> r.q_tot_prime,
     erf_arg_1 |-> bw_erf_arg_1(p.z_ll_ab, p.mu_ll_ab),
     erf_arg_2 |-> bw_erf_arg_2(p.z_ll_ab, p.mu_ll_ab),
     perp_arg |-> bw_perp_arg(p.z_perp_ab_sqr),
     mu_ab_sigma_g |-> mu_ab_sigma_g,
     pair_terms |-> pair_terms,
     locs_grad |-> bw_locs_grad(prefactor, Rank(saved[2]) - 1),
     scale_grad |-> bw_scale_grad(prefactor, r.epsilons, Rank(saved[2]) - 1),
     logits_grad |-> bw_logits_grad(saved[5], Rank(saved[2]) - 1, pair_terms, r.q_tot)]

bw_step6(saved, g, p, r, mu_ab_sigma_g) ==
    bw_gradients(saved, g, p, r, mu_ab_sigma_g,
                 bw_pair_terms(saved[5], p,
                               bw_erf_arg_1(p.z_ll_ab, p.mu_ll_ab),
                               bw_erf_arg_2(p.z_ll_ab, p.mu_ll_ab),
                               mu_ab_sigma_g),
                 bw_prefactor(saved[5], g, r))

bw_step5(saved, g, p, r) ==
    bw_step6(saved, g, p, r, bw_mu_ab_sigma_g(saved[2], g, p.mu_ab))

bw_step4(saved, g, p, epsilons, log_q_j) ==
    bw_step5(saved, g, p,
             bw_responsibilities(saved[5], epsilons, log_q_j,
                                 Map1("Exp", bw_q_j_prime_arg(log_q_j)),
                                 Map1("Exp", bw_q_j_arg(log_q_j))))

bw_step3(saved, g, n, p, epsilons) == bw_step4(saved, g, p, epsilons, bw_log_q_j(epsilons))

bw_step2(saved, g, n, mu_ab, z_ll_ab) ==
    bw_step3(saved, g, n, bw_projections(n, mu_ab, z_ll_ab), bw_epsilons(n))

bw_step1(saved, g, n, mu_ab) == bw_step2(saved, g, n, mu_ab, bw_z_ll_ab(n.z_tilde, mu_ab))

bw_step0(saved, g, n) ==
    bw_step1(saved, g, n, bw_mu_ab(n.locs_tilde, Size(saved[4], -1)))

\* backward, lines 84-126: every tensor it computes, for
\* z, scale, locs, logits, pis = ctx.saved_tensors
backward_pass(saved, grad_output) ==
    bw_step0(saved, grad_output, bw_normalized(saved[1], saved[2], saved[3]))

\* backward: the returned tuple (line 128)
backward(saved, grad_output) ==
    LET b == backward_pass(saved, grad_output)
    IN  <<b.locs_grad, b.scale_grad, b.logits_grad, NoneT, NoneT, NoneT>>

(***************************************************************************)
(* Inputs.  A run draws every argument from the menus in env: shapes with  *)
(* axis sizes 1..MaxDim, and tensor contents that follow a striped pattern *)
(* base + step * (position mod mod) over the row-major positions.          *)
(***************************************************************************)
Dims == 1..MaxDim

RECURSIVE ShapesOfRank(_)
ShapesOfRank(r) ==
    IF r = 0 THEN {<<>>}
    ELSE {<<d>> \o s : d \in Dims, s \in ShapesOfRank(r - 1)}

ShapesUpTo(lo, hi) == UNION {ShapesOfRank(r) : r \in lo..hi}

\* a shape and its neighbours: an axis dropped, an axis added, a size changed
Variants(n) ==
    {n} \cup (IF Len(n) > 1 THEN {Tail(n)} ELSE {})
        \cup {<<d>> \o n : d \in Dims}
        \cup {SetAt(n, p, d) : p \in 1..Len(n), d \in Dims}

\* the scale / logits shape that shares the batch shape of locs
NominalScale(locsShape) ==
    IF Len(locsShape) < 2 THEN locsShape ELSE DropAt(locsShape, Len(locsShape) - 1)
NominalLogits(locsShape) ==
    IF Len(locsShape) < 2 THEN locsShape ELSE Front(locsShape, Len(locsShape) - 1)

Gens(bases, steps, mods) == [base : bases, step : steps, mod : mods]

GenT(s, g) == MkT(s, [i \in Indices(s) |-> g.base + g.step * (Lin(i, s) % g.mod)])

\* component indices as the categorical sampler may return them
WhichT(s, a, stride, K) == MkT(s, [i \in Indices(s) |-> (a + stride * Lin(i, s)) % K])

\* wide shape menus; contents fixed, every entry of locs distinct; at most
\* one of scale and logits departs from the batch shape of locs
EnvShapes ==
    [locsShapes |-> ShapesUpTo(0, MaxBatchRank + 2),
     deviations |-> 1,
     sampleShapes |-> ShapesUpTo(0, MaxSampleRank),
     valueLeads |-> ShapesUpTo(0, MaxSampleRank),
     locsGens |-> Gens({0}, {ONE \div 2}, {2 ^ 10}),
     scaleGens |-> Gens({ONE}, {ONE}, {2}),
     logitsGens |-> Gens({0}, {0}, {1}),
     whichStarts |-> {1},
     whichStrides |-> {1},
     whiteGens |-> Gens({0 - ONE}, {ONE}, {3}),
     valueGens |-> Gens({0}, {ONE}, {2}),
     gGens |-> Gens({ONE}, {0}, {1})]

\* wide constructor menus, one argument for each later call
EnvArgs ==
    [EnvShapes EXCEPT !.deviations = 2, !.sampleShapes = {<<>>}, !.valueLeads = {<<>>}]

\* shapes of locs in EnvNum: K x D with K from 2, and a batch of K = MaxDim, D = 1
NumShapes ==
    {<<K, D>> : K \in 2..(MaxDim + 1), D \in Dims}
        \cup {bs \o <<MaxDim, 1>> : bs \in ShapesOfRank(MaxBatchRank)}

\* parameters that share the batch shape; contents vary: means that repeat
\* (mod 2) or not (mod 3), equal or unequal logits, noise and values near
\* the means and far from all of them
EnvNum ==
    [locsShapes |-> NumShapes,
     deviations |-> 0,
     sampleShapes |-> {<<>>, <<MaxDim>>},
     valueLeads |-> {<<>>, <<MaxDim>>},
     locsGens |-> Gens({0 - MaxLoc * ONE}, {2 * MaxLoc * ONE}, {2, 3}),
     scaleGens |-> Gens({ONE}, {ONE}, {2}),
     logitsGens |-> Gens({0}, {0, ONE}, {2}),
     whichStarts |-> {0, 1},
     whichStrides |-> {1},
     whiteGens |-> Gens({0 - MaxWhite * ONE, 0}, {ONE}, {2}),
     valueGens |-> Gens({0, 2 * MaxWhite * ONE}, {ONE}, {2}),
     gGens |-> Gens({ONE}, {0, ONE}, {2})]

(***************************************************************************)
(* The state machine: one instance is constructed, then log_prob, rsample  *)
(* (which runs forward and saves a context) and backward (run by the       *)
(* autograd engine on the saved context) are called in any order.          *)
(***************************************************************************)
NoCtx == [live |-> FALSE, saved |-> <<>>]

Call(op, args) == [op |-> op, args |-> args]

\* forward, line 77: ctx.save_for_backward(z, scale, locs, logits, pis)
save_for_backward(z, scale, locs, logits, pis) ==
    [live |-> TRUE, saved |-> <<z, scale, locs, logits, pis>>]

\* a backward that releases the context it has read
ctx_released(c) == NoCtx

\* backward, line 84: ctx.saved_tensors is read; the context is left as it is
ctx_after_backward(c) == c

\* __init__(locs, scale, logits)
Construct ==
    /\ pc = "new"
    /\ \E ls \in env.locsShapes :
       \E ss \in Variants(NominalScale(ls)), gs \in Variants(NominalLogits(ls)) :
       \E lg \in env.locsGens, sg \in env.scaleGens, gg \in env.logitsGens :
          /\ (IF ss = NominalScale(ls) THEN 0 ELSE 1)
                + (IF gs = NominalLogits(ls) THEN 0 ELSE 1) <= env.deviations
          /\ dist' = MixtureInit(GenT(ls, lg), GenT(ss, sg), GenT(gs, gg))
          /\ last' = Call("__init__", <<ls, ss, gs>>)
    /\ pc' = IF dist'.ok THEN "constructed" ELSE "failed"
    /\ out' = <<>>
    /\ UNCHANGED <<env, ctx, reads>>

\* log_prob(value), value of shape lead + batch_shape + event_shape
LogProb ==
    /\ pc = "constructed"
    /\ \E lead \in env.valueLeads, vg \in env.valueGens :
          /\ last' = Call("log_prob",
                          <<GenT(lead \o dist.batch_shape \o dist.event_shape, vg)>>)
    /\ out' = <<log_prob(dist, last'.args[1])>>
    /\ UNCHANGED <<env, dist, pc, ctx, reads>>

\* rsample(sample_shape): the categorical draw, then Function.apply -> forward
RSample ==
    /\ pc = "constructed"
    /\ \E sample_shape \in env.sampleShapes :
       \E a \in env.whichStarts, stride \in env.whichStrides, wg \in env.whiteGens :
          LET K == Size(dist.logits, -1)
          IN  last' = Call("rsample",
                           <<sample_shape,
                             WhichT(CategoricalSampleShape(dist.logits, sample_shape),
                                    a % K, stride, K),
                             GenT(sample_shape \o dist.scale.shape, wg)>>)
    /\ out' = <<forward(dist.locs, dist.scale, dist.logits, dist.probs,
                        last'.args[2], last'.args[3])>>
    /\ ctx' = IF IsErr(out'[1]) THEN ctx
              ELSE save_for_backward(out'[1], dist.scale, dist.locs, dist.logits,
                                     dist.probs)
    /\ reads' = IF IsErr(out'[1]) THEN reads ELSE 0
    /\ UNCHANGED <<env, dist, pc>>

\* backward(ctx, grad_output), grad_output of the shape of z
Backward ==
    /\ ctx.live
    /\ reads < MaxReads
    /\ \E gg \in env.gGens :
          last' = Call("backward", <<GenT(ctx.saved[1].shape, gg)>>)
    /\ out' = backward(ctx.saved, last'.args[1])
    /\ ctx' = ctx_after_backward(ctx)
    /\ reads' = reads + 1
    /\ UNCHANGED <<env, dist, pc>>

\* whether the last call raised
Raised == \E k \in 1..Len(out) : out[k].kind = "error"

Next == Construct \/ LogProb \/ RSample \/ Backward

InitWith(e) ==
    /\ env = e
    /\ dist = NoDist
    /\ pc = "new"
    /\ last = Call("none", <<>>)
    /\ out = <<>>
    /\ ctx = NoCtx
    /\ reads = 0

Init == InitWith(EnvShapes)
Spec == Init /\ [][Next]_vars

InitArgs == InitWith(EnvArgs)
SpecArgs == InitArgs /\ [][Next]_vars

InitNum == InitWith(EnvNum)
SpecNum == InitNum /\ [][Next]_vars

(***************************************************************************)
(* The constructor (checked under SpecArgs).                               *)
(***************************************************************************)
\* the rank / size constraints on the three shapes, as the spec states them
RankSizeConstraints(ls, ss, gs) ==
    IF Len(ls) <= 2
    THEN /\ Len(ss) = 1
         /\ Len(gs) = 1
         /\ Len(ls) = 2
         /\ gs[1] = ls[Len(ls) - 1]
    ELSE /\ Len(ss) > 1
         /\ Len(gs) > 1
         /\ gs[Len(gs)] = ls[Len(ls) - 1]

\* C4: the constructor accepts (locs, scale, logits) exactly when the rank /
\* size constraints hold and fails at construction otherwise: a rejected
\* triple violates them; an accepted one satisfies them, has batch_shape ()
\* when rank(locs) <= 2 and locs.shape[:-2] when rank(locs) > 2, and
\* event_shape (locs.size(-1),) in both modes.
C4_AcceptsExactlyWhenConstraintsHold ==
    /\ pc = "failed" =>
          /\ last.op = "__init__"
          /\ ~dist.ok
          /\ ~RankSizeConstraints(last.args[1], last.args[2], last.args[3])
    /\ pc = "constructed" =>
          LET ls == dist.locs.shape
          IN  /\ RankSizeConstraints(ls, dist.scale.shape, dist.logits.shape)
              /\ dist.batch_shape = IF Len(ls) <= 2 THEN <<>> ELSE Front(ls, Len(ls) - 2)
              /\ dist.event_shape = <<ls[Len(ls)]>>

\* an instance in batch mode was accepted and one more call was made on it
C4_BatchInstanceAccepted ==
    /\ pc = "constructed"
    /\ Len(dist.batch_shape) = 1
    /\ dist.batch_shape # <<1>>
    /\ last.op = "log_prob"

(***************************************************************************)
(* The saved context (checked under SpecArgs).                             *)
(***************************************************************************)
\* C5 as stated: a SavedContext produced by one forward call is consumed by
\* at most one backward call: no context has been read by two backward
\* calls.
C5_ContextReadAtMostOnce == reads <= 1

\* C5, amended: a backward call reads the saved tensors of a live context
\* and leaves the context exactly as it was, neither marked nor released,
\* so the same context can be read again.
C5_BackwardLeavesContext ==
    [][reads' = reads + 1 => (ctx.live /\ ctx' = ctx)]_vars

\* one context has been read by two backward calls and is still live
C5_ContextReadTwice == reads = 2 /\ ctx.live /\ last.op = "backward"

(***************************************************************************)
(* Shapes and the gathered location (checked under Spec).                  *)
(***************************************************************************)
\* scale is batch_shape + (D,) and logits is batch_shape + (K,)
SharedBatchShape(locs, scale, logits) ==
    /\ Rank(locs) >= 2
    /\ scale.shape = Front(locs.shape, Rank(locs) - 2) \o <<Size(locs, -1)>>
    /\ logits.shape = Front(locs.shape, Rank(locs) - 1)

\* C1: for every sample_shape and every batch shape, rsample's forward step
\* gathers for draw l and batch index b the mean of the drawn component of
\* that same batch element, so that
\* z[l,b,:] = locs[b, which[l,b], :] + scale[b,:] * white[l,b,:].
C1_ForwardGathersOwnBatchElement ==
    (/\ last.op = "rsample"
     /\ SharedBatchShape(dist.locs, dist.scale, dist.logits)) =>
        LET sample_shape == last.args[1]
            which == last.args[2]
            white == last.args[3]
            n == Len(sample_shape) + Len(dist.batch_shape)
            z == out[1]
        IN  /\ ~IsErr(z)
            /\ z.shape = sample_shape \o dist.batch_shape \o <<dist.dim>>
            /\ \A i \in Indices(z.shape) :
                  LET lb == Front(i, n)
                      b == Back(lb, Len(sample_shape))
                      d == Back(i, n)
                  IN  z.data[i] = Add(dist.locs.data[b \o <<which.data[lb]>> \o d],
                                      Mul(dist.scale.data[b \o d], white.data[i]))

\* C3: shape errors are raised only at construction: on an accepted
\* instance a later log_prob on a value of shape batch_shape + (D,) and a
\* later rsample (here with the default sample_shape) never fail with a
\* shape or broadcasting error.
C3_NoShapeErrorAfterConstruction ==
    /\ (/\ last.op = "log_prob"
        /\ last.args[1].shape = dist.batch_shape \o dist.event_shape) => ~Raised
    /\ (last.op = "rsample" /\ last.args[1] = <<>>) => ~Raised

\* C6: for accepted parameters with batch shape B and event size D,
\* log_prob(value) returns value's leading axes followed by B and
\* rsample(sample_shape) returns sample_shape + B + (D,), for every
\* sample_shape of rank 0, 1 and 2.
C6_OutputShapesCarryBatchShape ==
    SharedBatchShape(dist.locs, dist.scale, dist.logits) =>
        /\ last.op = "log_prob" =>
              LET value == last.args[1]
                  lead == Front(value.shape, Rank(value) - Len(dist.batch_shape) - 1)
              IN  ~Raised /\ out[1].shape = lead \o dist.batch_shape
        /\ last.op = "rsample" =>
              /\ ~Raised
              /\ out[1].shape = last.args[1] \o dist.batch_shape \o <<dist.dim>>

\* C7: backward returns gradients aligned with forward's six inputs:
\* position 1 has exactly locs's shape, position 2 exactly scale's shape,
\* position 3 exactly logits's shape, for any sample_shape rank and any
\* batch rank, and positions 4-6 are None.
C7_GradientShapesMatchParameters ==
    (/\ last.op = "backward"
     /\ SharedBatchShape(ctx.saved[3], ctx.saved[2], ctx.saved[4])) =>
        /\ Len(out) = 6
        /\ \A k \in 1..3 : out[k].kind = "tensor"
        /\ out[1].shape = ctx.saved[3].shape
        /\ out[2].shape = ctx.saved[2].shape
        /\ out[3].shape = ctx.saved[4].shape
        /\ \A k \in 4..6 : out[k] = NoneT

(***************************************************************************)
(* Numerics of log_prob and backward (checked under SpecNum).              *)
(***************************************************************************)
\* the entries of a tensor
Entries(t) == {t.data[i] : i \in Indices(t.shape)}

AllFinite(t) == ~IsErr(t) /\ \A x \in Entries(t) : IsFinite(x)

\* indices of the leading axes of t, all but the last n
LeadIdx(t, n) == Indices(Front(t.shape, Rank(t) - n))
\* indices of the last n axes of t
TailIdx(t, n) == Indices(Back(t.shape, Rank(t) - n))

\* over the last n axes, every entry of t is <= 0 and one is 0
RelativeToExtreme(t, n) ==
    \A lb \in LeadIdx(t, n) :
        /\ \A r \in TailIdx(t, n) : t.data[lb \o r] <= 0
        /\ \E r \in TailIdx(t, n) : t.data[lb \o r] = 0

\* the smallest weight of the batch element that the leading index lb of a
\* (sample axes + batch axes) tensor belongs to
SmallestWeight(pis, lb) ==
    LET b == Back(lb, Len(lb) - (Rank(pis) - 1))
    IN  CHOOSE w \in {pis.data[b \o <<k>>] : k \in 0..(Size(pis, -1) - 1)} :
            \A k \in 0..(Size(pis, -1) - 1) : w <= pis.data[b \o <<k>>]

\* C8: in log_prob the per-(l,b) minimum of eps_sqr is subtracted before
\* exponentiating: every argument passed to exp is <= 0 and equals 0 for at
\* least one component, whatever the size of the squared distances, so the
\* sum inside the log is at least the smallest weight and not an overflowed
\* value.
C8_LogProbExpArgumentsAtMostZero ==
    (/\ last.op = "log_prob"
     /\ AllFinite(eps_sqr(dist, last.args[1]))) =>
        LET a == exp_arg(dist, last.args[1])
            m == mix_sum(dist, last.args[1])
        IN  /\ RelativeToExtreme(a, 1)
            /\ \A lb \in Indices(m.shape) :
                  /\ IsFinite(m.data[lb])
                  /\ m.data[lb] >= SmallestWeight(dist.probs, lb)

\* log_prob of a value so far from every mean that exp(-eps_sqr) is 0 for
\* every component, with a finite result
C8_FarValueFiniteLogProb ==
    /\ last.op = "log_prob"
    /\ AllFinite(out[1])
    /\ \A x \in Entries(eps_sqr(dist, last.args[1])) : IsFinite(x) /\ Exp(Neg(x)) = 0

\* what the last backward call computed
LastBackward == backward_pass(ctx.saved, last.args[1])

\* C9 as stated: every exponential of backward (q_j_prime, q_j, and the
\* exp of -0.5 z_perp_ab_sqr) has an argument relative to a per-(l,b)
\* maximum, so its largest argument for each (l,b) is 0, and no normalizer
\* (q_tot, q_tot') is zero.
C9_EveryExponentialRelativeToMax ==
    last.op = "backward" =>
        LET bw == LastBackward
        IN  AllFinite(bw.log_q_j) =>
                /\ RelativeToExtreme(bw.q_j_prime_arg, 2)
                /\ RelativeToExtreme(bw.q_j_arg, 2)
                /\ RelativeToExtreme(bw.perp_arg, 2)
                /\ 0 \notin Entries(bw.q_tot)
                /\ 0 \notin Entries(bw.q_tot_prime)

\* C9, amended: only q_j_prime is computed relative to the per-(l,b)
\* maximum: its argument is <= 0 and is 0 for one component, so q_tot' is
\* at least the smallest weight; q_j = exp(log_q_j) takes log_q_j as it is,
\* so q_tot is 0 wherever q_j underflows for every component.
C9_OnlyPrimedResponsibilitiesStabilized ==
    last.op = "backward" =>
        LET bw == LastBackward
            log_q_j == bw.log_q_j
            q_tot == bw.q_tot
            q_tot_prime == bw.q_tot_prime
        IN  AllFinite(log_q_j) =>
                /\ RelativeToExtreme(bw.q_j_prime_arg, 2)
                /\ \A lb \in LeadIdx(q_tot_prime, 2) :
                      /\ IsFinite(q_tot_prime.data[lb \o <<0, 0>>])
                      /\ q_tot_prime.data[lb \o <<0, 0>>]
                            >= SmallestWeight(ctx.saved[5], lb)
                /\ \A lb \in LeadIdx(q_tot, 1) :
                      (\A j \in 0..(Size(ctx.saved[4], -1) - 1) :
                           Exp(log_q_j.data[lb \o <<j, 0>>]) = 0)
                          => q_tot.data[lb \o <<0>>] = 0

\* a backward call on a sample far from every mean: q_tot is 0 there while
\* q_tot' is positive
C9_FarSampleZeroNormalizer ==
    /\ last.op = "backward"
    /\ LET bw == LastBackward
       IN  /\ AllFinite(bw.log_q_j)
           /\ 0 \in Entries(bw.q_tot)
           /\ \A x \in Entries(bw.q_tot_prime) : IsFinite(x) /\ x > 0

\* components p and q of batch element b have identical means
SameMean(locs, b, p, q) ==
    \A d \in 0..(Size(locs, -1) - 1) : locs.data[b \o <<p, d>>] = locs.data[b \o <<q, d>>]

\* C2: in the backward pass, when two distinct components p # q have
\* identical means, no exception is raised and the pair (p,q) contributes
\* exactly zero (a defined value, not NaN / Inf) to the logits gradient.
C2_CoincidentPairContributesZero ==
    last.op = "backward" =>
        LET bw == LastBackward
            locs == ctx.saved[3]
            pair_terms == bw.pair_terms
            K == Size(locs, -1 - 1)
        IN  \A b \in LeadIdx(locs, 2) : \A p \in 0..(K - 1), q \in 0..(K - 1) :
                (p # q /\ SameMean(locs, b, p, q)) =>
                    /\ ~Raised
                    /\ ~IsErr(pair_terms)
                    /\ \A l \in LeadIdx(pair_terms, Rank(locs)) :
                          pair_terms.data[l \o b \o <<p, q>>] = 0

RECURSIVE DotFrom(_, _, _, _)
\* <f, g> over the coordinates d..D-1, summed as tensor.sum(-1) sums
DotFrom(f, g, d, D) ==
    IF d = D - 1 THEN Mul(f[d], g[d])
    ELSE Add(Mul(f[d], g[d]), DotFrom(f, g, d + 1, D))

\* mu_ll_ab[b,p,q] = <locs~[b,r,:], mu[b,p,q,:]> for every batch element b
\* and pair p # q, with r = q when second and r = p otherwise; and the erf
\* arguments and factors of the pair terms built on it
PairProjections(bw, pis, second) ==
    LET locs_tilde == bw.locs_tilde
        mu_ab == bw.mu_ab
        mu_ll_ab == bw.mu_ll_ab
        z_ll_ab == bw.z_ll_ab
        erf_arg_1 == bw.erf_arg_1
        erf_arg_2 == bw.erf_arg_2
        pair_terms == bw.pair_terms
        perp_arg == bw.perp_arg
        mu_ab_sigma_g == bw.mu_ab_sigma_g
        K == Size(mu_ll_ab, -1)
        D == Size(locs_tilde, -1)
    IN  /\ \A b \in LeadIdx(mu_ll_ab, 2) : \A p \in 0..(K - 1), q \in 0..(K - 1) :
              p # q =>
                  LET r == IF second THEN q ELSE p
                      l_r == [d \in 0..(D - 1) |-> locs_tilde.data[b \o <<r, d>>]]
                      mu_pq == [d \in 0..(D - 1) |-> mu_ab.data[b \o <<p, q, d>>]]
                  IN  mu_ll_ab.data[b \o <<p, q>>] = DotFrom(l_r, mu_pq, 0, D)
        /\ \A l \in LeadIdx(z_ll_ab, Rank(mu_ll_ab)) : \A b \in LeadIdx(mu_ll_ab, 2) :
           \A p \in 0..(K - 1), q \in 0..(K - 1) :
              p # q =>
                  LET i == l \o b \o <<p, q>>
                  IN  /\ erf_arg_1.data[i]
                            = Sub(z_ll_ab.data[i], mu_ll_ab.data[b \o <<p, q>>])
                      /\ erf_arg_2.data[i]
                            = Add(z_ll_ab.data[i], mu_ll_ab.data[b \o <<q, p>>])
                      /\ pair_terms.data[i]
                            = Mul(Mul(Sub(ErfOverRoot2(erf_arg_1.data[i]),
                                          ErfOverRoot2(erf_arg_2.data[i])),
                                      Exp(perp_arg.data[i])),
                                  Mul(Neg(mu_ab_sigma_g.data[i]), pis.data[b \o <<q>>]))

\* C10 as stated: the projected mean used in the logits gradient is
\* mu_ll[p,q] = <locs~[q,:], mu[p,q,:]>, the q-th (second-index) normalized
\* mean projected on the pair direction, and the erf factor is
\* erf((z_ll[l,b,p,q] - mu_ll[p,q])/sqrt 2) - erf((z_ll[l,b,p,q] + mu_ll[q,p])/sqrt 2)
\* with that definition, multiplied by weights[b,q].
C10_ProjectsSecondMean ==
    last.op = "backward" =>
        LET bw == LastBackward
        IN  ~IsErr(bw.pair_terms) => PairProjections(bw, ctx.saved[5], TRUE)

\* C10, amended: the projected mean is mu_ll[p,q] = <locs~[p,:], mu[p,q,:]>,
\* the p-th (first-index) normalized mean projected on the pair direction;
\* the erf factor is
\* erf((z_ll[l,b,p,q] - mu_ll[p,q])/sqrt 2) - erf((z_ll[l,b,p,q] + mu_ll[q,p])/sqrt 2)
\* with that definition, multiplied by weights[b,q].
C10_ProjectsFirstMean ==
    last.op = "backward" =>
        LET bw == LastBackward
        IN  ~IsErr(bw.pair_terms) => PairProjections(bw, ctx.saved[5], FALSE)

\* a backward call with D = 1 and two distinct means: mu[0,1] is -1 or +1
\* and mu_ll[0,1] is the first mean times it, not the second
C10_UnitDirectionOnOneAxis ==
    /\ last.op = "backward"
    /\ LET bw == LastBackward
       IN  /\ ~IsErr(bw.pair_terms)
           /\ Size(bw.locs_tilde, -1) = 1
           /\ \E b \in LeadIdx(bw.mu_ll_ab, 2) :
                 /\ bw.mu_ab.data[b \o <<0, 1, 0>>] \in {ONE, 0 - ONE}
                 /\ bw.mu_ll_ab.data[b \o <<0, 1>>]
                       = Mul(bw.locs_tilde.data[b \o <<0, 0>>], bw.mu_ab.data[b \o <<0, 1, 0>>])
                 /\ bw.mu_ll_ab.data[b \o <<0, 1>>]
                       # Mul(bw.locs_tilde.data[b \o <<1, 0>>], bw.mu_ab.data[b \o <<0, 1, 0>>])

====
